---- MODULE Spec2Model ----
(***************************************************************************)
(* A model of flow_monitor.py: the webhook receiver (PostHandler), the     *)
(* flow-measurement timers, the nightly leak_check thread and the main     *)
(* event loop that owns the per-zone state, together with                  *)
(* water_meter.read_meter.                                                 *)
(*                                                                         *)
(* Python values are modelled as follows.                                  *)
(*  - A dict is a TLA+ record; a key the dict lacks is a field the record  *)
(*    lacks, so that d['k'] on a missing key is an error (KeyError) and    *)
(*    d.get('k', None) is None.                                            *)
(*  - None, for the numeric optionals (meter values, usage, flow), is the  *)
(*    number None below; real readings are never negative.                 *)
(*  - An eventType string is the set of the marker substrings it contains, *)
(*    since the code only ever asks `"MARKER" in eventType`.               *)
(*  - Volumes are in units of 0.1 cubic feet, so that the leak threshold   *)
(*    0.1 is the integer LeakThreshold.                                    *)
(*  - An exception that nothing catches ends the thread that raised it:    *)
(*    the main loop (consumer = "crashed") or leak_check (pc = "dead").    *)
(***************************************************************************)
EXTENDS Integers, Sequences, FiniteSets, TLC

VARIABLES
    zones,                  \* zones[zoneNumber]: the zone_state objects
    event_queue,            \* queue.Queue of (etype, edata)
    timers,                 \* started threading.Timer objects not yet fired
    meter,                  \* the water meter's accumulated volume
    test_message_received,  \* threading.Event
    consumer,               \* the main loop: "running" or "crashed"
    leak,                   \* the leak_check thread: pc, start_value, cycle, and
                            \* whether wait() found the flag already set
    records,                \* points handed to influx_write_api.write
    notifications,          \* messages handed to send_notification, counted
    http,                   \* history of PostHandler: the responses it gave,
                            \* the events it put and the request it served last
    last,                   \* history: the event the main loop handled last
    hist,                   \* history: per zone, the effective events of its run
    test_processed,         \* history: cycles whose WEBHOOK_TEST was handled
    zone_access,            \* history: the threads that read or wrote a field
                            \* of a zone_state object
    earlier                 \* history: per timer args, the timers and queued
                            \* samples started before the zone last opened

vars == <<zones, event_queue, timers, meter, test_message_received, consumer,
          leak, records, notifications, http, last, hist, test_processed,
          zone_access, earlier>>

----------------------------------------------------------------------------
(* Bounds of the model *)

MaxMeter == 2       \* the meter advances at most this far
MaxPosts == 4       \* calls made to the webhook endpoint with zone-run or
                    \* schedule notifications
MaxCalls == 3       \* calls made to it where every kind of call is made
MaxCycles == 2      \* nights leak_check runs
MaxQueue == 1       \* entries waiting in event_queue when another is put
MaxBacklog == 3     \* entries event_queue holds while the main loop is behind

----------------------------------------------------------------------------
(* Values *)

None == -1

LeakThreshold == 1  \* 0.1 cf

Zones == {1}                        \* keys of the zones dict: controller.get_zones()
EventIds == {"e1", "e2"}
NoId == "unset"                     \* zone.startId before the first start
FlowValues == {2, 5}                \* flow readings the meter may report

\* eventType strings, as the set of the markers they contain
DEVICE_ZONE_RUN_STARTED_EVENT == {"DEVICE_ZONE_RUN", "STARTED"}
DEVICE_ZONE_RUN_PAUSED_EVENT == {"DEVICE_ZONE_RUN", "PAUSED"}
DEVICE_ZONE_RUN_STOPPED_EVENT == {"DEVICE_ZONE_RUN", "STOPPED"}
DEVICE_ZONE_RUN_COMPLETED_EVENT == {"DEVICE_ZONE_RUN", "COMPLETED"}
DEVICE_ZONE_RUN_OTHER_EVENT == {"DEVICE_ZONE_RUN"}
SCHEDULE_STARTED_EVENT == {"STARTED"}
WEBHOOK_TEST == {"WEBHOOK_TEST"}

\* `marker in eventType`
In(marker, eventType) == marker \in eventType

\* d.get(key, None)
Get(d, key) == IF key \in DOMAIN d THEN d[key] ELSE None

\* d[key] raises KeyError
KeyError(d, key) == key \notin DOMAIN d

\* the absent value where a dict, a string or a decoded body is expected
PyNone == [none |-> TRUE]
IsNone(v) == "none" \in DOMAIN v

----------------------------------------------------------------------------
(* water_meter.read_meter *)

\* what a call may return while the meter stands at m: {} when the request
\* or the decoding fails, else the meter's data
read_meter(m) ==
    {[k \in {} |-> None]} \cup {[accumulated |-> m, flow |-> f] : f \in FlowValues}

----------------------------------------------------------------------------
(* config.ini *)

\* the [FLOW] section gives zone 1 a ceiling of 3 gpm; option values are strings
config == [FLOW |-> [z \in {"1"} |-> [str |-> 3]]]

\* config.get(section, option, fallback=None); configparser folds the option
\* name to lower case
ConfigGet(section, option) ==
    IF section \in DOMAIN config /\ option \in DOMAIN config[section]
    THEN config[section][option]
    ELSE PyNone

----------------------------------------------------------------------------
(* Events *)

WEBHOOK == "WEBHOOK"
FLOW_TIMER == "FLOW_TIMER"

\* a queue entry (etype, edata); origin is history: the leak_check cycle that
\* posted it, 0 for an entry of any other origin
Event(etype, edata, origin) == [etype |-> etype, edata |-> edata, origin |-> origin]

\* args of the threading.Timer started for zoneNumber by the start eventId
TimerArgs(zoneNumber, eventId) ==
    Event(FLOW_TIMER, [zoneNumber |-> zoneNumber, timerId |-> eventId], 0)

\* decoded bodies of zone-run notifications
RunBody(eventType, eventId, zoneNumber) ==
    [eventType |-> eventType, eventId |-> eventId,
     payload |-> [zoneNumber |-> zoneNumber]]

\* the zone-run event types the controller sends
RunTypes == {DEVICE_ZONE_RUN_STARTED_EVENT, DEVICE_ZONE_RUN_PAUSED_EVENT,
             DEVICE_ZONE_RUN_STOPPED_EVENT, DEVICE_ZONE_RUN_COMPLETED_EVENT}

\* Notifications for the zones the controller has. The controller gives every
\* notification an eventId; a redelivered start repeats one, and only a
\* start's id is ever looked at.
ZoneRunBodies ==
    {RunBody(DEVICE_ZONE_RUN_STARTED_EVENT, id, z) : id \in EventIds, z \in Zones}
    \cup {RunBody(t, "e3", z) :
            t \in RunTypes \ {DEVICE_ZONE_RUN_STARTED_EVENT}, z \in Zones}

\* a zone-run notification of a subtype the loop does not expect
UnexpectedBodies == {RunBody(DEVICE_ZONE_RUN_OTHER_EVENT, "e3", z) : z \in Zones}

\* zone-run notifications naming a zone number that zones has no key for
UnknownZoneBodies ==
    {RunBody(t, "e3", 2) :
        t \in {DEVICE_ZONE_RUN_STARTED_EVENT, DEVICE_ZONE_RUN_STOPPED_EVENT}}

\* bodies that are JSON but lack a field the main loop reads
IncompleteBodies ==
    {[eventId |-> "e3", payload |-> [zoneNumber |-> 1]],
     [eventType |-> DEVICE_ZONE_RUN_STOPPED_EVENT, payload |-> [zoneNumber |-> 1]],
     [eventType |-> DEVICE_ZONE_RUN_STOPPED_EVENT, eventId |-> "e3"],
     [eventType |-> DEVICE_ZONE_RUN_STOPPED_EVENT, eventId |-> "e3",
      payload |-> [durationSeconds |-> 60]]}

\* an event of another category
ScheduleBody == [eventType |-> SCHEDULE_STARTED_EVENT, eventId |-> "e3"]

\* the private test type sent from outside: as leak_check sends it, and with
\* the fields of a zone-run notification added
TestBodies ==
    {[eventType |-> WEBHOOK_TEST],
     [eventType |-> WEBHOOK_TEST, eventId |-> "e1", payload |-> [zoneNumber |-> 1]]}

OtherBodies == {ScheduleBody} \cup TestBodies

Bodies == ZoneRunBodies \cup UnexpectedBodies \cup UnknownZoneBodies \cup IncompleteBodies \cup OtherBodies

----------------------------------------------------------------------------
(* PostHandler *)

webhook_path == "/rachio.json"

\* int(s.headers['Content-Length']) succeeds on these
NumericLengths == {"64"}

GoodHeaders == ("Content-Length" :> "64") @@ ("Content-Type" :> "application/json")

\* json.loads(post_data): the decoded value, PyNone for the JSON text null;
\* text that is no JSON raises ValueError
ValueError(post_data) == "garbage" \in DOMAIN post_data
json_loads(post_data) == post_data.json

Request(path, headers, post_data) ==
    [path |-> path, headers |-> headers, post_data |-> post_data]

\* calls that validate() turns away
RejectedRequests ==
    {Request("/", GoodHeaders, [json |-> [eventType |-> WEBHOOK_TEST]]),
     Request(webhook_path,
             ("Content-Length" :> "64") @@ ("Content-Type" :> "text/plain"),
             [json |-> [eventType |-> WEBHOOK_TEST]]),
     Request(webhook_path, ("Content-Type" :> "application/json"),
             [json |-> [eventType |-> WEBHOOK_TEST]]),
     Request(webhook_path,
             ("Content-Length" :> "x") @@ ("Content-Type" :> "application/json"),
             [json |-> [eventType |-> WEBHOOK_TEST]]),
     Request(webhook_path, GoodHeaders, [garbage |-> TRUE]),
     Request(webhook_path, GoodHeaders, [json |-> PyNone])}

\* a well-formed call carrying body b
Carrying(b) == Request(webhook_path, GoodHeaders, [json |-> b])

WebhookRequests == {Carrying(b) : b \in Bodies}

Requests == WebhookRequests \cup RejectedRequests

\* validate, were the path not looked at
validateAnyPath(s) ==
    IF \/ "Content-Length" \notin DOMAIN s.headers
       \/ s.headers["Content-Length"] \notin NumericLengths
       \/ "Content-Type" \notin DOMAIN s.headers
       \/ s.headers["Content-Type"] # "application/json"
    THEN PyNone
    ELSE IF ValueError(s.post_data) THEN PyNone
    ELSE json_loads(s.post_data)

\* PostHandler.validate: the decoded body, or PyNone
validate(s) ==
    IF s.path # webhook_path THEN PyNone
    ELSE IF \/ "Content-Length" \notin DOMAIN s.headers
            \/ s.headers["Content-Length"] \notin NumericLengths
            \/ "Content-Type" \notin DOMAIN s.headers
            \/ s.headers["Content-Type"] # "application/json"
         THEN PyNone
    ELSE IF ValueError(s.post_data) THEN PyNone
    ELSE json_loads(s.post_data)

\* PostHandler.do_POST: the response code and the queue after the call
do_POST(s, queue, origin) ==
    LET data == validate(s) IN
    IF IsNone(data)
    THEN [code |-> 400, queue |-> queue]
    ELSE [code |-> 200, queue |-> Append(queue, Event(WEBHOOK, data, origin))]

\* the handler's history after it served s with the result r
Served(h, s, r, queue) ==
    [ok |-> h.ok + (IF r.code = 200 THEN 1 ELSE 0),
     bad |-> h.bad + (IF r.code = 400 THEN 1 ELSE 0),
     put |-> h.put + Len(r.queue) - Len(queue),
     request |-> s]

----------------------------------------------------------------------------
(* Notifications *)

ntfy_topic == "irrigation"

\* send_notification, called from `site`; a failing post is caught and logged.
\* The flow check and the leak check send the same text, 'Irrigation leak
\* detected': the count is kept per calling site to tell them apart.
send_notification(sent, site) ==
    IF ntfy_topic # "" THEN [sent EXCEPT ![site] = @ + 1] ELSE sent

----------------------------------------------------------------------------
(* Zone state *)

\* zone_state.__init__ ; startId is first assigned by a start
zone_state ==
    [valve_open |-> FALSE, meter_start_value |-> None, flow |-> None,
     usage |-> 0, startId |-> NoId]

\* the truth value Python gives a number or None
Truthy(x) == x # None /\ x # 0

\* the computation, were an unknown running total taken for 0
UsageFromZero(zone, meter_end_value) ==
    IF zone.meter_start_value = None THEN None
    ELSE IF meter_end_value = None THEN None
    ELSE (IF zone.usage = None THEN 0 ELSE zone.usage)
         + meter_end_value - zone.meter_start_value

\* the computation, were the running total left out of it
UsageOfSegment(zone, meter_end_value) ==
    IF zone.usage = None THEN None
    ELSE IF zone.meter_start_value = None THEN None
    ELSE IF meter_end_value = None THEN None
    ELSE meter_end_value - zone.meter_start_value

\* "determine water usage - None if any readings failed"
Usage(zone, meter_end_value) ==
    IF zone.usage = None THEN None
    ELSE IF zone.meter_start_value = None THEN None
    ELSE IF meter_end_value = None THEN None
    ELSE zone.usage + meter_end_value - zone.meter_start_value

\* Point(zone_name).field("usage", usage).field("flow", zone.flow); the zone's
\* name stands for its number
UsagePoint(zoneNumber, usage, flow) ==
    [measurement |-> zoneNumber, usage |-> usage, flow |-> flow]

\* Point("water_meter").field("reading", end_value)
MeterPoint(end_value) == [measurement |-> "water_meter", reading |-> end_value]

\* the open branch, were a start never to take it
TakesOpenBranchUnlessStart(zone, eventType) ==
    zone.valve_open /\ ~In("STARTED", eventType)

\* the open branch, were a stop to take it whatever the valve's state
TakesOpenBranchOnStop(zone, eventType) ==
    zone.valve_open \/ In("STOPPED", eventType)

\* "if zone.valve_open:" ... "else:   # valve is closed"
TakesOpenBranch(zone, eventType) == zone.valve_open

\* the pause, were it to reset the zone as a terminal event does
PausedResets(zone, usage) ==
    [zone EXCEPT !.valve_open = FALSE, !.usage = 0, !.flow = None]

\* the zone's record after a pause found the valve open:
\* zone.valve_open = False ... zone.usage = usage
Paused(zone, usage) == [zone EXCEPT !.valve_open = FALSE, !.usage = usage]

\* the start, were the meter's value not stored
StartedWithoutReading(zone, eventId, meter_data) ==
    [zone EXCEPT !.valve_open = TRUE, !.startId = eventId]

\* the zone's record after a start found the valve closed
Started(zone, eventId, meter_data) ==
    [zone EXCEPT !.valve_open = TRUE,
                 !.meter_start_value = Get(meter_data, "accumulated"),
                 !.startId = eventId]

\* the arming, were the flow not looked at
ArmsTimerAlways(zone) == TRUE

\* "if zone.flow is None": the start arms a flow timer
ArmsTimer(zone) == zone.flow = None

\* the check, were the ids not compared
StaleWhenClosed(zone, timerId) == ~zone.valve_open

\* "if not zone.valve_open or zone.startId != timerId: continue"
Stale(zone, timerId) == ~zone.valve_open \/ zone.startId # timerId

\* config.get('FLOW', 'str(zoneNumber)', fallback=None): the option name is
\* the literal text, whatever zoneNumber is
flow_limit(zoneNumber) == ConfigGet("FLOW", "str(zonenumber)")

\* "if zone.flow and flow_limit and zone.flow > flow_limit": a limit read from
\* the configuration is a string, and a number does not compare with a string
FlowCheck(flow, limit) ==
    IF ~Truthy(flow) \/ IsNone(limit) THEN "quiet"
    ELSE IF "str" \in DOMAIN limit THEN "TypeError"
    ELSE IF flow > limit.num THEN "alert"
    ELSE "quiet"

\* the effective events of a zone's run, a history: a start that opened the
\* valve, a pause or a terminal event that closed it, each with the
\* accumulated value its meter read returned
Sub(eventType) ==
    IF In("STARTED", eventType) THEN "STARTED"
    ELSE IF In("PAUSED", eventType) THEN "PAUSED"
    ELSE "TERMINAL"

Finalized(h) == h = <<>> \/ h[Len(h)].sub = "TERMINAL"

Logged(h, eventType, meter_data) ==
    LET e == [sub |-> Sub(eventType), accumulated |-> Get(meter_data, "accumulated")]
    IN IF Finalized(h) THEN <<e>> ELSE Append(h, e)

\* the event handled last, what became of it and whether the handling called
\* read_meter, a history
Handled(q, outcome, read) == [event |-> q, outcome |-> outcome, read |-> read]

----------------------------------------------------------------------------
(* The initial state: the module has run down to the main loop *)

TimerSet == {TimerArgs(z, id) : z \in Zones, id \in EventIds}

Init ==
    /\ zones = [z \in Zones |-> zone_state]
    /\ event_queue = <<>>
    /\ timers = [t \in TimerSet |-> 0]
    /\ meter = 0
    /\ test_message_received = FALSE
    /\ consumer = "running"
    /\ leak = [pc |-> "idle", start_value |-> None, cycle |-> 0, found_set |-> FALSE]
    /\ records = <<>>
    /\ notifications = [flow |-> 0, leak |-> 0, webhook |-> 0]
    /\ http = [ok |-> 0, bad |-> 0, put |-> 0, request |-> PyNone]
    /\ last = Handled(Event("none", PyNone, 0), "none", FALSE)
    /\ hist = [z \in Zones |-> <<>>]
    /\ test_processed = {}
    /\ zone_access = {}
    /\ earlier = [t \in TimerSet |-> 0]

\* the threads: the main thread runs the event loop, server_thread the
\* PostHandler, each threading.Timer its own callback, leak_thread leak_check
MainThread == "main"

\* The interpreter exits when an exception ends the main thread (the server
\* and leak_check threads are daemon threads): nothing runs after a crash.
Alive == consumer = "running"

----------------------------------------------------------------------------
(* The environment *)

\* water passes through the meter
MeterAdvance ==
    /\ Alive
    /\ meter < MaxMeter
    /\ meter' = meter + 1
    /\ UNCHANGED <<zones, zone_access, earlier, event_queue, timers, test_message_received, consumer,
                   leak, records, notifications, http, last, hist, test_processed>>

\* a call to the webhook endpoint from outside, one of `requests` and at most
\* the n-th call, made while the queue has room for an entry; PostHandler
\* answers it
ReceiveInto(requests, n, room) ==
    /\ Alive
    /\ http.ok + http.bad < n
    /\ \E s \in requests :
        LET r == do_POST(s, event_queue, 0) IN
        /\ Len(r.queue) <= room
        /\ event_queue' = r.queue
        /\ http' = Served(http, s, r, event_queue)
    /\ UNCHANGED <<zones, zone_access, earlier, timers, meter, test_message_received, consumer, leak,
                   records, notifications, last, hist, test_processed>>

Receive(requests, n) == ReceiveInto(requests, n, MaxQueue)

Post == Receive(Requests, MaxCalls)

\* the calls that pass validate()
PostWebhook == Receive(WebhookRequests, MaxCalls)

\* the notifications for the zones the controller has
PostZoneRun == Receive({Carrying(b) : b \in ZoneRunBodies}, MaxPosts)

\* a notification of another category
PostSchedule == Receive({Carrying(ScheduleBody)}, MaxPosts)

\* one run of a zone: its start and its stop
PostRun ==
    Receive({Carrying(RunBody(DEVICE_ZONE_RUN_STARTED_EVENT, "e1", 1)),
             Carrying(RunBody(DEVICE_ZONE_RUN_STOPPED_EVENT, "e3", 1))},
            MaxCalls)

\* a threading.Timer fires while the queue has room: event_queue.put(args)
TimerFireInto(room) ==
    /\ Alive
    /\ Len(event_queue) < room
    /\ \E t \in TimerSet :
        /\ timers[t] > 0
        /\ timers' = [timers EXCEPT ![t] = @ - 1]
        /\ event_queue' = Append(event_queue, t)
    /\ UNCHANGED <<zones, zone_access, earlier, meter, test_message_received, consumer, leak, records,
                   notifications, http, last, hist, test_processed>>

\* the timer, were its callback to sample the flow into the zone itself
TimerFireSamples ==
    /\ Alive
    /\ \E t \in TimerSet :
        /\ timers[t] > 0
        /\ timers' = [timers EXCEPT ![t] = @ - 1]
        /\ \E meter_data \in read_meter(meter) :
            zones' = [zones EXCEPT ![t.edata.zoneNumber].flow = Get(meter_data, "flow")]
    /\ zone_access' = zone_access \cup {"timer"}
    /\ UNCHANGED <<earlier, event_queue, meter, test_message_received, consumer, leak,
                   records, notifications, http, last, hist, test_processed>>

\* the timers of the zone model: a firing finds room in the queue
TimerFire == TimerFireInto(MaxQueue)

----------------------------------------------------------------------------
(* The main loop: q = event_queue.get(), then the branch q takes *)

\* the samples with the args t that are under way: timers started and not
\* yet fired, and entries waiting in the queue
Pending(t) ==
    timers[t] + Cardinality({i \in 1..Len(event_queue) : event_queue[i] = t})

\* a history: the zone opens, and every sample under way for it is from now
\* on one of an earlier opening
Outstanding(h, zoneNumber) ==
    [t \in TimerSet |-> IF t.edata.zoneNumber = zoneNumber THEN Pending(t) ELSE h[t]]

\* a history: the loop takes a sample with the args q. Timers run for the
\* same 20 seconds and the queue keeps the order of entry, so of the samples
\* with the same args, which are alike to the program, the loop takes the
\* one started first.
Taken(h, q) == [h EXCEPT ![q] = IF @ > 0 THEN @ - 1 ELSE 0]

\* the decoding, were the fields of a zone-run event read before the type is
\* looked at
DecodeFieldsFirst(edata) ==
    IF KeyError(edata, "eventType") THEN "KeyError"
    ELSE IF KeyError(edata, "eventId") THEN "KeyError"
    ELSE IF KeyError(edata, "payload") THEN "KeyError"
    ELSE IF KeyError(edata.payload, "zoneNumber") THEN "KeyError"
    ELSE IF In("WEBHOOK_TEST", edata.eventType) THEN "test"
    ELSE IF ~In("DEVICE_ZONE_RUN", edata.eventType) THEN "ignore"
    ELSE IF KeyError(zones, edata.payload.zoneNumber) THEN "KeyError"
    ELSE "run"

\* "decode the message and verify type", up to zone = zones[zoneNumber]
Decode(edata) ==
    IF KeyError(edata, "eventType") THEN "KeyError"
    ELSE IF In("WEBHOOK_TEST", edata.eventType) THEN "test"
    ELSE IF ~In("DEVICE_ZONE_RUN", edata.eventType) THEN "ignore"
    ELSE IF KeyError(edata, "eventId") THEN "KeyError"
    ELSE IF KeyError(edata, "payload") THEN "KeyError"
    ELSE IF KeyError(edata.payload, "zoneNumber") THEN "KeyError"
    ELSE IF KeyError(zones, edata.payload.zoneNumber) THEN "KeyError"
    ELSE "run"

\* q is at the head of the queue and the main loop takes it
Gets(q, etype) ==
    /\ Alive
    /\ event_queue # <<>>
    /\ q = Head(event_queue)
    /\ q.etype = etype
    /\ event_queue' = Tail(event_queue)

\* a webhook of the private test type: test_message_received.set()
WebhookTest ==
    LET q == Head(event_queue) IN
        /\ Gets(q, WEBHOOK)
        /\ Decode(q.edata) = "test"
        /\ test_message_received' = TRUE
        /\ test_processed' = test_processed \cup ({q.origin} \ {0})
        /\ last' = Handled(q, "test", FALSE)
        /\ UNCHANGED <<zones, zone_access, earlier, timers, meter, consumer, leak, records,
                       notifications, http, hist>>

\* a webhook that is no zone-run event: "ignoring {eventType}"
WebhookIgnored ==
    LET q == Head(event_queue) IN
        /\ Gets(q, WEBHOOK)
        /\ Decode(q.edata) = "ignore"
        /\ last' = Handled(q, "ignore", FALSE)
        /\ UNCHANGED <<zones, zone_access, earlier, timers, meter, test_message_received, consumer,
                       leak, records, notifications, http, hist, test_processed>>

\* a webhook lacking a key the loop reads, or naming a zone that zones lacks:
\* the KeyError is caught nowhere (the loop's try catches KeyboardInterrupt)
WebhookKeyError ==
    LET q == Head(event_queue) IN
        /\ Gets(q, WEBHOOK)
        /\ Decode(q.edata) = "KeyError"
        /\ consumer' = "crashed"
        /\ last' = Handled(q, "KeyError", FALSE)
        /\ UNCHANGED <<zones, zone_access, earlier, timers, meter, test_message_received, leak,
                       records, notifications, http, hist, test_processed>>

\* a zone-run webhook that finds the valve open
ZoneRunOpen ==
    LET q == Head(event_queue) IN
        /\ Gets(q, WEBHOOK)
        /\ Decode(q.edata) = "run"
        /\ LET eventType == q.edata.eventType
               zoneNumber == q.edata.payload.zoneNumber
               zone == zones[zoneNumber]
           IN
           /\ TakesOpenBranch(zone, eventType)
           /\ \E meter_data \in read_meter(meter) :
               LET usage == Usage(zone, Get(meter_data, "accumulated")) IN
               IF In("STARTED", eventType) THEN
                   \* "START - ignored, valve already open"
                   /\ last' = Handled(q, "already open", TRUE)
                   /\ UNCHANGED <<zones, records, consumer, hist>>
               ELSE IF In("PAUSED", eventType) THEN
                   /\ zones' = [zones EXCEPT ![zoneNumber] = Paused(zone, usage)]
                   /\ hist' = [hist EXCEPT ![zoneNumber] = Logged(@, eventType, meter_data)]
                   /\ last' = Handled(q, "paused", TRUE)
                   /\ UNCHANGED <<records, consumer>>
               ELSE
                   \* "log data collected", then "reset zone values" unless
                   \* the write raises
                   /\ records' = Append(records, UsagePoint(zoneNumber, usage, zone.flow))
                   /\ hist' = [hist EXCEPT ![zoneNumber] = Logged(@, eventType, meter_data)]
                   /\ \E written \in BOOLEAN :
                       IF written THEN
                           /\ zones' = [zones EXCEPT ![zoneNumber].valve_open = FALSE,
                                                     ![zoneNumber].usage = 0,
                                                     ![zoneNumber].flow = None]
                           /\ last' = Handled(q, "finalized", TRUE)
                           /\ UNCHANGED consumer
                       ELSE
                           /\ zones' = [zones EXCEPT ![zoneNumber].valve_open = FALSE]
                           /\ last' = Handled(q, "write failed", TRUE)
                           /\ consumer' = "crashed"
        /\ zone_access' = zone_access \cup {MainThread}
        /\ UNCHANGED <<earlier, timers, meter, test_message_received, leak,
                       notifications, http, test_processed>>

\* a zone-run webhook that finds the valve closed
ZoneRunClosed ==
    LET q == Head(event_queue) IN
        /\ Gets(q, WEBHOOK)
        /\ Decode(q.edata) = "run"
        /\ LET eventType == q.edata.eventType
               eventId == q.edata.eventId
               zoneNumber == q.edata.payload.zoneNumber
               zone == zones[zoneNumber]
           IN
           /\ ~TakesOpenBranch(zone, eventType)
           /\ \E meter_data \in read_meter(meter) :
               IF In("STARTED", eventType) THEN
                   /\ zones' = [zones EXCEPT ![zoneNumber] = Started(zone, eventId, meter_data)]
                   /\ timers' = IF ArmsTimer(zone)
                                THEN [timers EXCEPT ![TimerArgs(zoneNumber, eventId)] = @ + 1]
                                ELSE timers
                   /\ hist' = [hist EXCEPT ![zoneNumber] = Logged(@, eventType, meter_data)]
                   /\ earlier' = Outstanding(earlier, zoneNumber)
                   /\ last' = Handled(q, "started", TRUE)
               ELSE
                   \* "Valve is not open - ignoring"
                   /\ last' = Handled(q, "not open", TRUE)
                   /\ UNCHANGED <<zones, timers, hist, earlier>>
        /\ zone_access' = zone_access \cup {MainThread}
        /\ UNCHANGED <<meter, test_message_received, consumer, leak, records,
                       notifications, http, test_processed>>

\* a flow timer's event
FlowTimer ==
    LET q == Head(event_queue) IN
        /\ Gets(q, FLOW_TIMER)
        /\ earlier' = Taken(earlier, q)
        /\ LET zoneNumber == q.edata.zoneNumber
               timerId == q.edata.timerId
               zone == zones[zoneNumber]
           IN
           IF Stale(zone, timerId) THEN
               /\ last' = Handled(q, "stale", FALSE)
               /\ UNCHANGED <<zones, notifications, consumer>>
           ELSE
               \E meter_data \in read_meter(meter) :
                   LET flow == Get(meter_data, "flow")
                       check == FlowCheck(flow, flow_limit(zoneNumber))
                   IN
                   /\ zones' = [zones EXCEPT ![zoneNumber].flow = flow]
                   /\ notifications' = IF check = "alert"
                                       THEN send_notification(notifications, "flow")
                                       ELSE notifications
                   /\ consumer' = IF check = "TypeError" THEN "crashed" ELSE consumer
                   /\ last' = Handled(q, "sampled", TRUE)
        /\ zone_access' = zone_access \cup {MainThread}
        /\ UNCHANGED <<timers, meter, test_message_received, leak, records, http,
                       hist, test_processed>>

----------------------------------------------------------------------------
(* leak_check: one night is a cycle *)

\* "check for water usage (leakage)"
Leakage(start_value, end_value) ==
    IF start_value = None THEN None
    ELSE IF end_value = None THEN None
    ELSE end_value - start_value

\* "if leakage and leakage > 0.1"
LeakDetected(leakage) == Truthy(leakage) /\ leakage > LeakThreshold

\* the night comes: the first meter reading
LeakFirstReading ==
    /\ Alive
    /\ leak.pc = "idle"
    /\ leak.cycle < MaxCycles
    /\ \E start_reading \in read_meter(meter) :
        leak' = [leak EXCEPT !.pc = "hour",
                             !.start_value = Get(start_reading, "accumulated"),
                             !.cycle = @ + 1]
    /\ UNCHANGED <<zones, zone_access, earlier, event_queue, timers, meter, test_message_received,
                   consumer, records, notifications, http, last, hist,
                   test_processed>>

\* an hour later: the second reading, the leak notification, the daily
\* record and the test message posted to the public webhook URL. A write that
\* raises ends the thread; a post that raises is caught, and one that the
\* tunnel does not forward reaches no handler.
LeakSecondReading ==
    /\ Alive
    /\ leak.pc = "hour"
    /\ Len(event_queue) < MaxQueue
    /\ \E end_reading \in read_meter(meter), written \in BOOLEAN, forwarded \in BOOLEAN :
        LET end_value == Get(end_reading, "accumulated")
            leakage == Leakage(leak.start_value, end_value)
            payload == [eventType |-> WEBHOOK_TEST]
            request == Request(webhook_path, GoodHeaders, [json |-> payload])
            posted == do_POST(request, event_queue, leak.cycle)
        IN
        /\ notifications' = IF LeakDetected(leakage)
                            THEN send_notification(notifications, "leak")
                            ELSE notifications
        /\ records' = IF end_value # None
                      THEN Append(records, MeterPoint(end_value))
                      ELSE records
        /\ IF end_value # None /\ ~written
           THEN /\ leak' = [leak EXCEPT !.pc = "dead"]
                /\ UNCHANGED <<event_queue, http>>
           ELSE /\ leak' = [leak EXCEPT !.pc = "posted"]
                /\ event_queue' = IF forwarded THEN posted.queue ELSE event_queue
                /\ http' = IF forwarded
                           THEN Served(http, request, posted, event_queue)
                           ELSE http
    /\ UNCHANGED <<zones, zone_access, earlier, timers, meter, test_message_received, consumer, last,
                   hist, test_processed>>

\* requests.post has returned: test_message_received.wait(timeout=10) is
\* called, and returns at once if the flag is set by then
LeakWaitBegins ==
    /\ Alive
    /\ leak.pc = "posted"
    /\ leak' = [leak EXCEPT !.pc = "wait", !.found_set = test_message_received]
    /\ UNCHANGED <<zones, zone_access, earlier, event_queue, timers, meter,
                   test_message_received, consumer, records, notifications, http,
                   last, hist, test_processed>>

\* the wait, were the flag left set after it
LeakTestReceivedKeepsFlag ==
    /\ Alive
    /\ leak.pc = "wait"
    /\ test_message_received
    /\ leak' = [leak EXCEPT !.pc = "idle"]
    /\ UNCHANGED <<zones, zone_access, earlier, event_queue, timers, meter,
                   test_message_received, consumer, records, notifications, http,
                   last, hist, test_processed>>

\* test_message_received.wait(timeout=10) returns True: clear()
LeakTestReceived ==
    /\ Alive
    /\ leak.pc = "wait"
    /\ test_message_received
    /\ test_message_received' = FALSE
    /\ leak' = [leak EXCEPT !.pc = "idle"]
    /\ UNCHANGED <<zones, zone_access, earlier, event_queue, timers, meter, consumer, records,
                   notifications, http, last, hist, test_processed>>

\* the wait times out: 'Irrigation webhook test failed'
LeakTestTimeout ==
    /\ Alive
    /\ leak.pc = "wait"
    /\ ~test_message_received
    /\ notifications' = send_notification(notifications, "webhook")
    /\ leak' = [leak EXCEPT !.pc = "idle"]
    /\ UNCHANGED <<zones, zone_access, earlier, event_queue, timers, meter, test_message_received,
                   consumer, records, http, last, hist, test_processed>>

----------------------------------------------------------------------------

\* The zone state machine: the receiver taking zone-run notifications for the
\* zones the controller has, the flow timers and the main loop
NextZones ==
    \/ MeterAdvance
    \/ PostZoneRun
    \/ TimerFire
    \/ ZoneRunOpen
    \/ ZoneRunClosed
    \/ FlowTimer

SpecZones == Init /\ [][NextZones]_vars

\* the main loop blocks in event_queue.get() only while the queue is empty,
\* and a started threading.Timer fires after its 20 seconds
MainLoop == ZoneRunOpen \/ ZoneRunClosed \/ FlowTimer

SpecZonesFair == SpecZones /\ WF_vars(MainLoop) /\ WF_vars(TimerFire)

\* The main loop under every kind of body the receiver lets through
NextLoop ==
    \/ MeterAdvance
    \/ PostWebhook
    \/ TimerFire
    \/ WebhookTest
    \/ WebhookIgnored
    \/ WebhookKeyError
    \/ ZoneRunOpen
    \/ ZoneRunClosed
    \/ FlowTimer

SpecLoop == Init /\ [][NextLoop]_vars

\* the same scheduling, the loop taking every kind of webhook
SpecLoopFair ==
    /\ SpecLoop
    /\ WF_vars(MainLoop \/ WebhookTest \/ WebhookIgnored \/ WebhookKeyError)
    /\ WF_vars(TimerFire)

\* The nightly check: leak_check, the receiver and the main loop, with no
\* zone running
NextLeak ==
    \/ MeterAdvance
    \/ PostSchedule
    \/ WebhookTest
    \/ WebhookIgnored
    \/ LeakFirstReading
    \/ LeakSecondReading
    \/ LeakWaitBegins
    \/ LeakTestReceived
    \/ LeakTestTimeout

SpecLeak == Init /\ [][NextLeak]_vars

\* Every thread at once: the receiver, the timers, leak_check and the main
\* loop, over one run of a zone while the meter stands still
NextThreads ==
    \/ PostRun
    \/ TimerFire
    \/ WebhookTest
    \/ ZoneRunOpen
    \/ ZoneRunClosed
    \/ FlowTimer
    \/ LeakFirstReading
    \/ LeakSecondReading
    \/ LeakWaitBegins
    \/ LeakTestReceived
    \/ LeakTestTimeout

SpecThreads == Init /\ [][NextThreads]_vars

\* The receiver under every kind of call, with the main loop taking what it
\* enqueues
NextReceiver ==
    \/ MeterAdvance
    \/ Post
    \/ TimerFire
    \/ WebhookTest
    \/ WebhookIgnored
    \/ WebhookKeyError
    \/ ZoneRunOpen
    \/ ZoneRunClosed
    \/ FlowTimer

SpecReceiver == Init /\ [][NextReceiver]_vars

\* notifications arriving faster than the main loop takes them: a run of the
\* zone, and a notification for a zone the controller does not have
PostBurst ==
    ReceiveInto({Carrying(RunBody(DEVICE_ZONE_RUN_STARTED_EVENT, "e1", 1)),
                 Carrying(RunBody(DEVICE_ZONE_RUN_STOPPED_EVENT, "e3", 1)),
                 Carrying(RunBody(DEVICE_ZONE_RUN_STOPPED_EVENT, "e3", 2))},
                MaxPosts, MaxBacklog)

\* a timer firing while entries wait
TimerBurst == TimerFireInto(MaxBacklog)

\* The queue between the producers and the main loop, with the loop behind
NextQueue ==
    \/ PostBurst
    \/ TimerBurst
    \/ WebhookKeyError
    \/ ZoneRunOpen
    \/ ZoneRunClosed
    \/ FlowTimer

SpecQueue == Init /\ [][NextQueue]_vars

----------------------------------------------------------------------------
(* What the claims speak of *)

\* this step is the main loop taking the entry at the head of the queue
Dequeues == Alive /\ event_queue # <<>> /\ event_queue' = Tail(event_queue)

\* q is a webhook with every field of a zone-run notification
IsZoneRun(q) ==
    /\ q.etype = WEBHOOK
    /\ {"eventType", "eventId", "payload"} \subseteq DOMAIN q.edata
    /\ "zoneNumber" \in DOMAIN q.edata.payload
    /\ "DEVICE_ZONE_RUN" \in q.edata.eventType
    /\ "WEBHOOK_TEST" \notin q.edata.eventType

\* q is a zone-run notification of the given subtype for a zone that exists
IsRunFor(q, z) == IsZoneRun(q) /\ q.edata.payload.zoneNumber = z

IsStart(q) == "STARTED" \in q.edata.eventType
IsPause(q) == "PAUSED" \in q.edata.eventType /\ ~IsStart(q)
IsTerminal(q) == ~IsStart(q) /\ ~IsPause(q)

\* the step hands one more usage record to the sink, for zone z
Emits(z) ==
    /\ Len(records') = Len(records) + 1
    /\ SubSeq(records', 1, Len(records)) = records
    /\ records'[Len(records')].measurement = z

Emitted == records'[Len(records')]

\* the accumulated values logged for a run are all known
AllKnown(h) == \A i \in 1..Len(h) : h[i].accumulated # None

Subs(h) == [i \in 1..Len(h) |-> h[i].sub]

----------------------------------------------------------------------------
(* C1 *)

\* C1: a FlowSample dequeued while its zone is closed, or open under another
\* correlation id than the sample's, changes no field of any zone and sends
\* no notification.
C1_StaleFlowSampleDiscarded ==
    [][(/\ Dequeues
        /\ Head(event_queue).etype = FLOW_TIMER
        /\ LET e == Head(event_queue).edata IN
           \/ ~zones[e.zoneNumber].valve_open
           \/ zones[e.zoneNumber].startId # e.timerId)
       => /\ zones' = zones
          /\ notifications' = notifications
          /\ consumer' = consumer]_vars

\* a sample armed by start e1 was discarded while the zone runs under start
\* e2, after the first run was finalized
C1_Witness ==
    /\ last.outcome = "stale"
    /\ last.event.edata.timerId = "e1"
    /\ zones[1].valve_open
    /\ zones[1].startId = "e2"
    /\ zones[1].flow = None
    /\ records # <<>>

----------------------------------------------------------------------------
(* C2 *)

\* C2: a STARTED zone-run webhook dequeued while its zone is open changes no
\* field of the zone, arms no timer and emits no record, whatever its eventId.
C2_DuplicateStartIgnored ==
    [][\A z \in Zones :
        (/\ Dequeues
         /\ IsRunFor(Head(event_queue), z)
         /\ IsStart(Head(event_queue))
         /\ zones[z].valve_open)
        => /\ zones' = zones
           /\ timers' = timers
           /\ records' = records
           /\ consumer' = consumer]_vars

\* a start carrying another eventId than the running one was ignored, after
\* the meter had moved on from the start value
C2_Witness ==
    /\ last.outcome = "already open"
    /\ zones[1].valve_open
    /\ last.event.edata.eventId # zones[1].startId
    /\ zones[1].meter_start_value # None
    /\ meter > zones[1].meter_start_value

----------------------------------------------------------------------------
(* C3 *)

\* C3: a zone-run webhook whose zoneNumber is no key of zones is dropped: the
\* main loop keeps running and no field of any zone changes.
C3_UnknownZoneDropped ==
    [][(/\ Dequeues
        /\ IsZoneRun(Head(event_queue))
        /\ Head(event_queue).edata.payload.zoneNumber \notin DOMAIN zones)
       => /\ consumer' = "running"
          /\ zones' = zones]_vars

----------------------------------------------------------------------------
(* C4 *)

\* q is a webhook without eventType, or a zone-run webhook without eventId,
\* payload or payload.zoneNumber
LacksField(q) ==
    /\ q.etype = WEBHOOK
    /\ \/ "eventType" \notin DOMAIN q.edata
       \/ /\ "DEVICE_ZONE_RUN" \in q.edata.eventType
          /\ "WEBHOOK_TEST" \notin q.edata.eventType
          /\ \/ "eventId" \notin DOMAIN q.edata
             \/ "payload" \notin DOMAIN q.edata
             \/ "zoneNumber" \notin DOMAIN q.edata.payload

\* C4: a webhook lacking a required field is dropped: the main loop keeps
\* running and no field of any zone changes.
C4_IncompleteWebhookDropped ==
    [][(Dequeues /\ LacksField(Head(event_queue)))
       => /\ consumer' = "running"
          /\ zones' = zones]_vars

----------------------------------------------------------------------------
(* C5 *)

\* the step handles an event that takes effect on zone z
TakesEffect(z) ==
    /\ Dequeues
    /\ IsRunFor(Head(event_queue), z)
    /\ hist'[z] # hist[z]

\* what a run STARTED, PAUSED, STARTED, terminal owes: the two segments' deltas
TwoSegments(h) ==
    (h[2].accumulated - h[1].accumulated) + (h[4].accumulated - h[3].accumulated)

SegmentsSummed(z) ==
    LET h == hist'[z] IN
    /\ Subs(h) \in {<<"STARTED">>, <<"STARTED", "PAUSED">>,
                    <<"STARTED", "PAUSED", "STARTED">>}
       => records' = records
    /\ Subs(h) = <<"STARTED", "PAUSED", "STARTED", "TERMINAL">>
       => /\ Emits(z)
          /\ Emitted.usage = TwoSegments(h)
          /\ zones'[z].usage = 0
          /\ zones'[z].flow = None

\* C5: over STARTED, PAUSED, STARTED, STOPPED on a zone, from a finalized
\* state and with all four meter reads giving a value, one record is emitted,
\* at the terminal event, with the sum of the two segments' deltas as usage;
\* after it the zone's usage is 0 and its flow is None.
C5_PauseResumeUsageSummed ==
    [][\A z \in Zones :
        (TakesEffect(z) /\ AllKnown(hist'[z])) => SegmentsSummed(z)]_vars

\* the same, for the steps in which the sink takes the record
SegmentsSummedWhenWritten ==
    [][\A z \in Zones :
        (TakesEffect(z) /\ AllKnown(hist'[z]) /\ consumer' = "running")
        => SegmentsSummed(z)]_vars

\* such a run was finalized with two segments that both used water
SegmentsSummedReached ==
    /\ last.outcome = "finalized"
    /\ Subs(hist[1]) = <<"STARTED", "PAUSED", "STARTED", "TERMINAL">>
    /\ AllKnown(hist[1])
    /\ hist[1][2].accumulated > hist[1][1].accumulated
    /\ hist[1][4].accumulated > hist[1][3].accumulated

----------------------------------------------------------------------------
(* C6 *)

\* the step handles a terminal event on the open zone z and its meter read
\* gives no accumulated value
TerminalReadFails(z) ==
    /\ Dequeues
    /\ IsRunFor(Head(event_queue), z)
    /\ IsTerminal(Head(event_queue))
    /\ zones[z].valve_open
    /\ hist'[z][Len(hist'[z])].accumulated = None

\* C6: a terminal event on an open zone whose meter read fails still
\* finalizes: one record with unknown usage is emitted, the zone is closed
\* with usage 0 and flow None, and the main loop keeps running.
C6_FinalizesWithoutReading ==
    [][\A z \in Zones :
        TerminalReadFails(z)
        => /\ Emits(z)
           /\ Emitted.usage = None
           /\ ~zones'[z].valve_open
           /\ zones'[z].usage = 0
           /\ zones'[z].flow = None
           /\ consumer' = "running"]_vars

\* the same, for the steps in which the sink takes the record
FinalizesWithoutReadingWhenWritten ==
    [][\A z \in Zones :
        (TerminalReadFails(z) /\ consumer' = "running")
        => /\ Emits(z)
           /\ Emitted.usage = None
           /\ ~zones'[z].valve_open
           /\ zones'[z].usage = 0
           /\ zones'[z].flow = None]_vars

----------------------------------------------------------------------------
(* C7 *)

\* C7: when a run is finalized and any meter read that contributed to it (at
\* a start, a pause or the terminal event) gave no accumulated value, the
\* record emitted has unknown usage.
C7_UnknownUsageSticky ==
    [][\A z \in Zones :
        (Dequeues /\ Emits(z) /\ ~AllKnown(hist'[z]))
        => Emitted.usage = None]_vars

\* a run whose first start read failed, and whose later reads all succeeded
\* over a pause and a second start, was finalized with unknown usage
C7_Witness ==
    /\ last.outcome = "finalized"
    /\ Len(hist[1]) = 4
    /\ hist[1][1].accumulated = None
    /\ \A i \in 2..4 : hist[1][i].accumulated # None
    /\ records[Len(records)].usage = None

----------------------------------------------------------------------------
(* C8 *)

\* the flow ceiling configured for a zone number, None when there is none
Ceiling(zoneNumber) ==
    IF ToString(zoneNumber) \in DOMAIN config.FLOW
    THEN config.FLOW[ToString(zoneNumber)].str
    ELSE None

\* C8: an accepted FlowSample sends an excess-flow notification exactly when
\* a ceiling is configured for its zone number and the sampled rate exceeds it.
C8_ExcessFlowAlert ==
    [][(/\ Dequeues
        /\ Head(event_queue).etype = FLOW_TIMER
        /\ LET e == Head(event_queue).edata IN
           /\ zones[e.zoneNumber].valve_open
           /\ zones[e.zoneNumber].startId = e.timerId)
       => LET z == Head(event_queue).edata.zoneNumber
              rate == zones'[z].flow
              exceeds == Ceiling(z) # None /\ rate # None /\ rate > Ceiling(z)
          IN notifications'.flow = notifications.flow + (IF exceeds THEN 1 ELSE 0)]_vars

----------------------------------------------------------------------------
(* C9 *)

\* the step ends the wait of leak_check's current cycle
WaitEnds == leak.pc = "wait" /\ leak'.pc # "wait"

\* C9: in every cycle, when the wait ends and the test message posted in that
\* cycle has not been handled by the main loop, the 'webhook test failed'
\* notification is sent, and leak_check goes on to its next cycle.
C9_MissedTestNotified ==
    [][(WaitEnds /\ leak.cycle \notin test_processed)
       => /\ notifications'.webhook = notifications.webhook + 1
          /\ leak'.pc = "idle"]_vars

----------------------------------------------------------------------------
(* C10 *)

\* the step is a terminal event's handling in which the write of the usage
\* record raises
UsageWriteFails(z) ==
    /\ Dequeues
    /\ IsRunFor(Head(event_queue), z)
    /\ last'.outcome = "write failed"

\* a step of leak_check's second half leaves the thread with its test message
\* posted, whether the write of the daily record raised or not
DailyWriteSurvived == leak.pc = "hour" => leak'.pc \in {"hour", "posted"}

\* C10: a write to the sink that fails is not fatal: after a failed write of
\* a usage record the main loop runs on and the zone is closed with usage 0
\* and flow None; after a failed write of the daily record leak_check still
\* posts its test message and waits for it.
C10_WriteFailureNotFatal ==
    [][/\ \A z \in Zones :
            UsageWriteFails(z)
            => /\ consumer' = "running"
               /\ ~zones'[z].valve_open
               /\ zones'[z].usage = 0
               /\ zones'[z].flow = None
       /\ DailyWriteSurvived]_vars

\* the second half alone, for the nightly check
C10_DailyWriteFailureNotFatal == [][DailyWriteSurvived]_vars

----------------------------------------------------------------------------
(* C11 *)

\* what the receiver requires of a call, told from the call itself
WrongPath(s) == s.path # "/rachio.json"
NotJsonType(s) ==
    \/ "Content-Type" \notin DOMAIN s.headers
    \/ s.headers["Content-Type"] # "application/json"
BadLength(s) ==
    \/ "Content-Length" \notin DOMAIN s.headers
    \/ s.headers["Content-Length"] \notin NumericLengths
Undecodable(s) == "json" \notin DOMAIN s.post_data \/ IsNone(s.post_data.json)

FailsValidation(s) == WrongPath(s) \/ NotJsonType(s) \/ BadLength(s) \/ Undecodable(s)

\* the step is PostHandler serving a call
Serves == http' # http

\* C11: a call that fails validation (wrong path, content type other than
\* JSON, missing or non-numeric length, undecodable body) is answered with a
\* client error and enqueues nothing; a call that passes is acknowledged and
\* enqueues exactly one WEBHOOK event, carrying the decoded body; no other step
\* enqueues a WEBHOOK event, so the WEBHOOK events ever enqueued are as many as
\* the acknowledged calls.
C11_ReceiverValidates ==
    /\ [](http.put = http.ok)
    /\ [][/\ Serves =>
             IF FailsValidation(http'.request)
             THEN /\ http'.bad = http.bad + 1
                  /\ http'.ok = http.ok
                  /\ event_queue' = event_queue
             ELSE /\ http'.ok = http.ok + 1
                  /\ http'.bad = http.bad
                  /\ Len(event_queue') = Len(event_queue) + 1
                  /\ SubSeq(event_queue', 1, Len(event_queue)) = event_queue
                  /\ event_queue'[Len(event_queue')].etype = WEBHOOK
                  /\ event_queue'[Len(event_queue')].edata = http'.request.post_data.json
          /\ ~Serves =>
             \A i \in 1..Len(event_queue') :
                event_queue'[i].etype = WEBHOOK
                => \E j \in 1..Len(event_queue) : event_queue[j] = event_queue'[i]]_vars

\* calls of both kinds were served, the last one turned away for its content
\* type while an accepted one waits in the queue
C11_Witness ==
    /\ http.ok >= 1
    /\ http.bad >= 2
    /\ ~IsNone(http.request)
    /\ ~WrongPath(http.request)
    /\ NotJsonType(http.request)
    /\ event_queue # <<>>
    /\ event_queue[1].etype = WEBHOOK

----------------------------------------------------------------------------
(* C12 *)

\* the step puts at most one entry at the end of the queue and takes none
OnlyEnqueues ==
    \/ event_queue' = event_queue
    \/ /\ Len(event_queue') = Len(event_queue) + 1
       /\ SubSeq(event_queue', 1, Len(event_queue)) = event_queue

\* C12: only the main loop reads or writes a zone's state: no thread but the
\* main thread ever accesses a field of a zone_state, and a step of the
\* receiver, of a timer callback or of leak_check leaves every zone as it was
\* and does no more to the queue than put an entry.
C12_SingleWriter ==
    /\ [](zone_access \subseteq {MainThread})
    /\ [][~Dequeues => (zones' = zones /\ OnlyEnqueues)]_vars

\* the zone is open with its flow sampled by the main loop, while leak_check
\* waits for its test message and an entry put by another thread is queued
C12_Witness ==
    /\ zone_access = {MainThread}
    /\ zones[1].valve_open
    /\ zones[1].flow # None
    /\ leak.pc = "wait"
    /\ http.ok >= 2
    /\ event_queue # <<>>

----------------------------------------------------------------------------
(* C13 *)

\* the step handles the terminal event that ends the run of the open zone z
Finalizes(z) ==
    /\ Dequeues
    /\ IsRunFor(Head(event_queue), z)
    /\ IsTerminal(Head(event_queue))
    /\ zones[z].valve_open

----------------------------------------------------------------------------
(* C14 *)

\* q is a webhook whose eventType is the test marker
IsTest(q) ==
    /\ q.etype = WEBHOOK
    /\ "eventType" \in DOMAIN q.edata
    /\ q.edata.eventType = WEBHOOK_TEST

\* C14: a webhook whose eventType is the test marker sets
\* test_message_received when it is dequeued and does nothing else: no field
\* of any zone changes, the meter is not read, no timer is armed, no record
\* and no notification is emitted and the loop runs on, whatever other fields
\* the webhook carries or lacks.
C14_TestMarkerOnlySetsFlag ==
    [][(Dequeues /\ IsTest(Head(event_queue)))
       => /\ test_message_received'
          /\ last'.event = Head(event_queue)
          /\ ~last'.read
          /\ UNCHANGED <<zones, timers, records, notifications, consumer, leak,
                         hist, meter, http>>]_vars

\* a test marker carrying the fields of a zone-run event was handled while
\* the zone it names is open
C14_Witness ==
    /\ last.outcome = "test"
    /\ "payload" \in DOMAIN last.event.edata
    /\ test_message_received
    /\ zones[1].valve_open
    /\ consumer = "running"

----------------------------------------------------------------------------
(* C15 *)

\* the step handles a FlowSample that its zone accepts
AcceptsSample(z) ==
    /\ Dequeues
    /\ Head(event_queue).etype = FLOW_TIMER
    /\ Head(event_queue).edata.zoneNumber = z
    /\ zones[z].valve_open
    /\ zones[z].startId = Head(event_queue).edata.timerId

\* C15: a run of a fresh zone made of a STARTED, the matching FlowSample and
\* a terminal event, with every meter read giving its value, emits exactly
\* one record, at the terminal event, whose usage is the end reading less the
\* start reading and whose flow is the sampled flow (the spec's instance:
\* start 100.0, sample 2.5, end 112.0, record usage 12.0 and flow 2.5).
C15_EndToEndRun ==
    [][\A z \in Zones :
        /\ (TakesEffect(z) /\ Subs(hist'[z]) = <<"STARTED">>) => records' = records
        /\ AcceptsSample(z)
           => /\ records' = records
              /\ zones'[z].flow \in FlowValues \cup {None}
        /\ (/\ TakesEffect(z)
            /\ Subs(hist'[z]) = <<"STARTED", "TERMINAL">>
            /\ AllKnown(hist'[z])
            /\ zones[z].flow # None)
           => /\ Emits(z)
              /\ Emitted.usage = hist'[z][2].accumulated - hist'[z][1].accumulated
              /\ Emitted.flow = zones[z].flow]_vars

\* the first run of the zone started at 0, was sampled at flow 5 and ended at
\* 2: the one record has usage 2 and flow 5
C15_Witness ==
    /\ last.outcome = "finalized"
    /\ Subs(hist[1]) = <<"STARTED", "TERMINAL">>
    /\ hist[1][1].accumulated = 0
    /\ hist[1][2].accumulated = 2
    /\ records = <<UsagePoint(1, 2, 5)>>

----------------------------------------------------------------------------
(* C16 *)

\* the zone after a run is finalized
Closed(z) ==
    /\ ~zones'[z].valve_open
    /\ zones'[z].usage = 0
    /\ zones'[z].flow = None

\* C16: a zone-run event that is neither STARTED nor PAUSED (STOPPED,
\* COMPLETED or a subtype the loop does not know), dequeued while its zone is
\* open, finalizes the run: exactly one usage and flow record is emitted and
\* the zone is left closed with usage 0 and flow None.
C16_TerminalFinalizes ==
    [][\A z \in Zones : Finalizes(z) => (Emits(z) /\ Closed(z))]_vars

\* the same, for the steps in which the sink takes the record
TerminalFinalizesWhenWritten ==
    [][\A z \in Zones :
        (Finalizes(z) /\ consumer' = "running") => (Emits(z) /\ Closed(z))]_vars

\* a run was finalized by an event of a subtype the loop does not know
TerminalFinalizesReached ==
    /\ last.outcome = "finalized"
    /\ last.event.edata.eventType = DEVICE_ZONE_RUN_OTHER_EVENT
    /\ records # <<>>

----------------------------------------------------------------------------
(* C17 *)

\* the running total with a segment's delta added; an unknown stays unknown
Added(usage, reading, start) ==
    IF usage = None \/ reading = None \/ start = None THEN None
    ELSE usage + (reading - start)

\* C17: a PAUSED event dequeued while its zone is open closes the valve and
\* adds the meter reading less meter_start_value to the zone's usage; it
\* emits no record, resets neither usage nor flow, and leaves flow at the
\* value it had.
C17_PauseAccumulates ==
    [][\A z \in Zones :
        (/\ Dequeues
         /\ IsRunFor(Head(event_queue), z)
         /\ IsPause(Head(event_queue))
         /\ zones[z].valve_open)
        => /\ ~zones'[z].valve_open
           /\ zones'[z].usage = Added(zones[z].usage,
                                      hist'[z][Len(hist'[z])].accumulated,
                                      zones[z].meter_start_value)
           /\ zones'[z].flow = zones[z].flow
           /\ records' = records
           /\ consumer' = consumer]_vars

\* a run whose flow was sampled at 5 was paused a second time: each pause
\* added its segment's delta, and the flow is still 5
C17_Witness ==
    /\ last.outcome = "paused"
    /\ Subs(hist[1]) = <<"STARTED", "PAUSED", "STARTED", "PAUSED">>
    /\ AllKnown(hist[1])
    /\ ~zones[1].valve_open
    /\ zones[1].usage = 2
    /\ zones[1].flow = 5
    /\ records = <<>>

----------------------------------------------------------------------------
(* C18 *)

\* C18: a zone-run event other than STARTED (PAUSED, STOPPED, COMPLETED or a
\* subtype the loop does not know), dequeued while its zone is closed, is
\* ignored: no field of any zone changes, no record is emitted, no timer is
\* armed and the loop runs on.
C18_ClosedIgnoresNonStart ==
    [][\A z \in Zones :
        (/\ Dequeues
         /\ IsRunFor(Head(event_queue), z)
         /\ ~IsStart(Head(event_queue))
         /\ ~zones[z].valve_open)
        => /\ zones' = zones
           /\ records' = records
           /\ timers' = timers
           /\ hist' = hist
           /\ consumer' = consumer]_vars

\* a stop was ignored at a zone that a pause had closed with usage 1
C18_Witness ==
    /\ last.outcome = "not open"
    /\ last.event.edata.eventType = DEVICE_ZONE_RUN_STOPPED_EVENT
    /\ Subs(hist[1]) = <<"STARTED", "PAUSED">>
    /\ zones[1].usage = 1
    /\ records = <<>>

----------------------------------------------------------------------------
(* C19 *)

\* the step takes zone z from closed to open
Opens(z) == ~zones[z].valve_open /\ zones'[z].valve_open

\* the step is the main loop handling a STARTED event for zone z, carrying id
StartHandled(z, id) ==
    /\ Dequeues
    /\ IsRunFor(Head(event_queue), z)
    /\ IsStart(Head(event_queue))
    /\ Head(event_queue).edata.eventId = id

\* C19: a flow timer is armed only by a step that opens a closed zone; such a
\* step arms exactly one, for the zone and the eventId of the STARTED event it
\* handles, when the zone's flow is None, and none when the flow is known;
\* and a timer that fires enqueues a FLOW_TIMER event carrying the zone number
\* and the eventId it was armed with, whatever the zone's startId is by then.
C19_TimerArmedOnOpen ==
    [][/\ \A t \in TimerSet :
            timers'[t] > timers[t]
            => /\ Opens(t.edata.zoneNumber)
               /\ StartHandled(t.edata.zoneNumber, t.edata.timerId)
       /\ \A z \in Zones :
            Opens(z)
            => \E id \in EventIds :
                /\ StartHandled(z, id)
                /\ timers' = IF zones[z].flow = None
                              THEN [timers EXCEPT ![TimerArgs(z, id)] = @ + 1]
                              ELSE timers
       /\ \A t \in TimerSet :
            timers'[t] < timers[t]
            => /\ timers' = [timers EXCEPT ![t] = @ - 1]
               /\ event_queue' = Append(event_queue,
                    [etype |-> FLOW_TIMER,
                     edata |-> [zoneNumber |-> t.edata.zoneNumber,
                                timerId |-> t.edata.timerId],
                     origin |-> 0])]_vars

\* the timer armed by start e1 has fired while the zone is open under start
\* e2, whose own timer is still pending: the queued event carries e1
C19_Witness ==
    /\ event_queue = <<TimerArgs(1, "e1")>>
    /\ zones[1].valve_open
    /\ zones[1].startId = "e2"
    /\ timers[TimerArgs(1, "e2")] = 1
    /\ timers[TimerArgs(1, "e1")] = 0

----------------------------------------------------------------------------
(* C20 *)

\* leak_check is between two cycles, its test message handled and the flag
\* clear
BetweenCycles ==
    /\ leak.pc = "idle"
    /\ leak.cycle \in test_processed
    /\ ~test_message_received

\* C20: test_message_received is a latch: when the main loop has handled the
\* cycle's test message by the time the wait ends, be it before wait() was
\* called or while it blocked, the wait succeeds: no 'webhook test failed'
\* notification is sent in that cycle, the flag is cleared, and it stays clear
\* until the next cycle has begun.
C20_FlagIsLatch ==
    [][/\ (WaitEnds /\ leak.cycle \in test_processed)
          => /\ test_message_received
             /\ ~test_message_received'
             /\ notifications'.webhook = notifications.webhook
             /\ leak'.pc = "idle"
       /\ BetweenCycles => ~test_message_received']_vars

\* the second cycle's test message was handled before wait() was called: the
\* wait found the flag set, no notification was sent and the flag is clear
C20_Witness ==
    /\ leak.cycle = 2
    /\ leak.pc = "idle"
    /\ leak.found_set
    /\ test_processed = {1, 2}
    /\ ~test_message_received
    /\ notifications.webhook = 0

----------------------------------------------------------------------------
(* C21 *)

\* the step puts one entry at the tail of the queue and keeps the entries
\* that wait there, in their order
Puts ==
    /\ Len(event_queue') = Len(event_queue) + 1
    /\ SubSeq(event_queue', 1, Len(event_queue)) = event_queue

\* what a step may do to the queue: nothing; put one entry behind those that
\* wait, the main loop handling nothing meanwhile; or take the entry at the
\* head, which is the one the main loop then handles
InOrder ==
    \/ event_queue' = event_queue /\ last' = last
    \/ Puts /\ last' = last
    \/ Dequeues /\ last'.event = Head(event_queue)

\* the main loop has ended with entries in the queue: they are never taken
Stranded == consumer # "running" /\ event_queue # <<>>

\* C21: every event the receiver or a flow timer puts on the queue is
\* dequeued by the main loop exactly once, one at a time and in the order of
\* entry: each step leaves the queue alone, appends one entry behind those
\* waiting (none dropped, none reordered, also while the loop is busy with an
\* earlier entry and its meter read), or removes the head for the loop to
\* handle; and no entry is left behind in the queue of a loop that has ended.
C21_QueueDelivers == [][InOrder /\ ~Stranded']_vars

\* the order alone: no step drops, repeats or reorders an entry
QueueInOrder == [][InOrder]_vars

\* entries of both producers waited behind a start while the loop handled it
\* and read the meter
QueueInOrderReached ==
    /\ last.outcome = "started" /\ last.read
    /\ Len(event_queue) >= 2
    /\ event_queue[1].etype = WEBHOOK
    /\ event_queue[2].etype = FLOW_TIMER

----------------------------------------------------------------------------
(* C22 *)

\* the step is the second half of leak_check's cycle: the second reading and
\* what follows it, up to the test message
SecondReading == leak.pc = "hour" /\ leak'.pc # "hour"

\* the accumulated value the second reading returned: the daily record is
\* handed to the sink exactly when there is one
EndValue ==
    IF Len(records') > Len(records) THEN records'[Len(records')].reading ELSE None

\* both readings returned an accumulated value and their difference exceeds
\* the threshold
AlertDue ==
    /\ leak.start_value # None
    /\ EndValue # None
    /\ EndValue - leak.start_value > LeakThreshold

\* the leak alert is raised in the second half of a cycle, once, exactly when
\* it is due, and nowhere else
AlertExact ==
    /\ SecondReading =>
          notifications'.leak = notifications.leak + (IF AlertDue THEN 1 ELSE 0)
    /\ ~SecondReading => notifications'.leak = notifications.leak

\* a reading of the cycle failed
ReadingFailed == leak.start_value = None \/ EndValue = None

\* C22: in every cycle the leak alert is raised exactly when both readings
\* returned an accumulated value and end - start exceeds the threshold; when
\* either reading failed no alert is raised and the cycle goes on to post the
\* self-test message.
C22_LeakAlert ==
    [][/\ AlertExact
       /\ (SecondReading /\ ReadingFailed)
          => /\ notifications'.leak = notifications.leak
             /\ leak'.pc = "posted"]_vars

\* the same, for the cycles in which the sink takes the daily record
LeakAlertWhenWritten ==
    [][/\ AlertExact
       /\ (SecondReading /\ ReadingFailed /\ leak'.pc # "dead")
          => /\ notifications'.leak = notifications.leak
             /\ leak'.pc = "posted"]_vars

\* a cycle with a leak of 0.2 and its alert, after a cycle that raised none
LeakAlertReached ==
    /\ leak.cycle = 2 /\ leak.pc = "posted"
    /\ leak.start_value = 0 /\ meter = 2
    /\ notifications.leak = 1
    /\ Len(records) = 2

----------------------------------------------------------------------------
(* C23 *)

\* q is a STOPPED or COMPLETED notification for zone z
IsStopFor(q, z) ==
    /\ IsRunFor(q, z)
    /\ IsTerminal(q)
    /\ \/ "STOPPED" \in q.edata.eventType
       \/ "COMPLETED" \in q.edata.eventType

\* nothing of a run is left in the zone's record
Clean(zone) == zone.usage = 0 /\ zone.flow = None

\* a closed zone whose last zone-run event was a stop is clean once that stop
\* has been handled, and stays as it is until its next zone-run event
CleanAfterStop(z) ==
    /\ (Dequeues /\ IsStopFor(Head(event_queue), z) /\ ~zones'[z].valve_open)
       => Clean(zones'[z])
    /\ (Dequeues /\ ~IsRunFor(Head(event_queue), z) /\ ~zones[z].valve_open)
       => zones'[z] = zones[z]

\* C23: no state leaks from one run into the next: whenever a zone is closed
\* and the last zone-run event dequeued for it was STOPPED or COMPLETED, its
\* usage is 0 and its flow is None, also when that event found the zone
\* paused.
C23_NoLeakBetweenRuns == [][\A z \in Zones : CleanAfterStop(z)]_vars

\* the same, for the stops that find the valve open and whose record the sink
\* takes
NoLeakAfterFinalizing ==
    [][\A z \in Zones :
        /\ (Dequeues /\ IsStopFor(Head(event_queue), z) /\ last'.outcome = "finalized")
           => ~zones'[z].valve_open /\ Clean(zones'[z])
        /\ (Dequeues /\ ~IsRunFor(Head(event_queue), z) /\ ~zones[z].valve_open)
           => zones'[z] = zones[z]]_vars

\* every write succeeding, a stop has found the zone paused and left the
\* paused run's usage and flow in the zone's record
LeakAfterPausedStop ==
    /\ consumer = "running"
    /\ last.outcome = "not open" /\ IsStopFor(last.event, 1)
    /\ ~zones[1].valve_open
    /\ zones[1].usage = 2 /\ zones[1].flow = 5

----------------------------------------------------------------------------
(* C24 *)

\* the sample the step takes is one started before the zone last opened
TakesEarlier ==
    /\ Dequeues
    /\ Head(event_queue).etype = FLOW_TIMER
    /\ earlier'[Head(event_queue)] = earlier[Head(event_queue)] - 1

\* C24: a flow sample armed by one closed-to-open transition of a zone is
\* never acted upon during a later open period of that zone begun by another
\* transition, also when the later start carries the same eventId (a
\* notification delivered twice): a step that accepts a sample never takes
\* one started before the zone last opened.
C24_NoEarlierSampleAccepted ==
    [][\A z \in Zones : AcceptsSample(z) => ~TakesEarlier]_vars

\* a sample under another id than the one the zone is open under is
\* discarded, of an earlier opening or not
EarlierDiscardedUnderOtherId ==
    [][\A z \in Zones :
        (/\ Dequeues
         /\ Head(event_queue).etype = FLOW_TIMER
         /\ Head(event_queue).edata.zoneNumber = z
         /\ Head(event_queue).edata.timerId # zones[z].startId)
        => last'.outcome = "stale" /\ zones' = zones]_vars

\* a sample of an earlier opening under another id is under way while the
\* zone is open
EarlierUnderOtherIdReached ==
    /\ zones[1].valve_open /\ zones[1].startId = "e2"
    /\ earlier[TimerArgs(1, "e1")] = 1
    /\ event_queue = <<TimerArgs(1, "e1")>>

----------------------------------------------------------------------------
(* C25 *)

\* zone z is open under the start id, with no flow known
OpenUnknown(z, id) ==
    zones[z].valve_open /\ zones[z].startId = id /\ zones[z].flow = None

\* the start id has just opened zone z, no flow being known
JustOpened(z, id) ==
    /\ OpenUnknown(z, id)
    /\ last.outcome = "started"
    /\ last.event.edata.payload.zoneNumber = z

\* the event handled last is a sample for zone z carrying id, which was
\* accepted
Sampled(z, id) == last.outcome = "sampled" /\ last.event = TimerArgs(z, id)

\* a zone that opens with no flow known and stays open under the same id has
\* a sample with that id accepted
SampledIfStaysOpen ==
    \A z \in Zones, id \in EventIds :
        JustOpened(z, id) ~> (Sampled(z, id) \/ ~OpenUnknown(z, id))

\* while a zone is open with no flow known, a sample with its current id is
\* under way: its timer is started, or its event is in the queue
SamplePending ==
    \A z \in Zones, id \in EventIds :
        OpenUnknown(z, id) => Pending(TimerArgs(z, id)) > 0

\* C25: flow gets sampled for a run that stays open: a zone that becomes open
\* with no flow known and stays open under the same id has, the timers firing
\* and the main loop running, a sample with that id dequeued and accepted;
\* and whenever a zone is open with no flow known, a sample with its current
\* id is still under way, also after an accepted sample whose meter read
\* returned no flow.
C25_FlowGetsSampled == SampledIfStaysOpen /\ []SamplePending

\* a sample with the current id stops being under way, the flow unknown, only
\* by a step that accepts a sample and whose meter read returns no flow
SamplePendingUnlessReadFailed ==
    [][\A z \in Zones :
        (SamplePending /\ ~SamplePending' /\ zones'[z].valve_open)
        => AcceptsSample(z) /\ last'.outcome = "sampled" /\ zones'[z].flow = None]_vars

\* the zone is open with no flow known and no sample under way, its one
\* sample having been accepted with a failed read
NoSamplePendingReached ==
    /\ consumer = "running"
    /\ OpenUnknown(1, "e1")
    /\ Sampled(1, "e1")
    /\ Pending(TimerArgs(1, "e1")) = 0

====
